---- MODULE Spec2Model ----
(***************************************************************************)
(* Model of scripts/update-business-data.js (carried in                    *)
(* src/scripts/format-html.js, lines 73-447) and of scripts/business-data.js*)
(* (src/unnamed/part_000).                                                 *)
(*                                                                         *)
(* Text is modelled as a sequence of atoms, each atom being the literal    *)
(* piece of text it is written as; a string is the concatenation of its    *)
(* atoms.  Times ("09:30") and dates ("2025-12-31") are sequences of       *)
(* one-character atoms, so that split, parseInt, padStart and the template *)
(* strings are computed character by character.  Markers, tags and         *)
(* configured values are one atom each.                                    *)
(***************************************************************************)
EXTENDS Integers, Sequences, FiniteSets, TLC

VARIABLES
  businessData,   \* the record required from ./business-data.js
  clock,          \* the system clock: [date |-> <<y, m, d>>, secs |-> second of the day]
  files,          \* the public directory: path -> content (a text) or Missing
  last,           \* what the last call of a script on one file did
  call,           \* the last projection called, with its argument
  ret,            \* what it returned
  denied,         \* the file operations that fail: pairs <<operation, file name>>
  run             \* the run of main(): position in htmlFiles, count, output, outcome

vars == <<businessData, clock, files, last, call, ret, denied, run>>

----------------------------------------------------------------------------
(* Strings *)

Null == <<"null">>                \* JavaScript null (also what String(null) reads)
IsFalsy(s) == s = Null \/ s = <<>>  \* !s for a string-or-null s

Digits == <<"0", "1", "2", "3", "4", "5", "6", "7", "8", "9">>
IsDigit(c) == \E i \in 1..10 : Digits[i] = c
DigitVal(c) == (CHOOSE i \in 1..10 : Digits[i] = c) - 1

RECURSIVE ParseDigits(_, _)
ParseDigits(s, acc) ==
  IF s = <<>> \/ ~IsDigit(Head(s)) THEN acc
  ELSE ParseDigits(Tail(s), acc * 10 + DigitVal(Head(s)))

\* parseInt(s, 10) for a string starting with a digit
parseInt(s) == ParseDigits(s, 0)

RECURSIVE StringOf(_)
\* String(n) for an integer n >= 0
StringOf(n) ==
  IF n < 10 THEN <<Digits[n + 1]>>
  ELSE StringOf(n \div 10) \o <<Digits[(n % 10) + 1]>>

RECURSIVE padStart(_, _, _)
\* s.padStart(len, c)
padStart(s, len, c) == IF Len(s) >= len THEN s ELSE padStart(<<c>> \o s, len, c)

\* F applied to the value of x: as in JavaScript, an argument is evaluated once,
\* before the call
Bind(x, F(_)) == CHOOSE r \in {F(v) : v \in {x}} : TRUE

Range(seq) == {seq[i] : i \in DOMAIN seq}
\* the least element of a non-empty set of numbers
Min(S) == CHOOSE x \in S : \A y \in S : x <= y

\* s.split(sep) for a one-atom separator: the sequence of the pieces between the
\* occurrences of sep (cuts are the positions of sep, and both ends of s)
SplitValue(s, sep) ==
  LET cuts == {0, Len(s) + 1} \cup {i \in 1..Len(s) : s[i] = sep}
      n    == Cardinality(cuts) - 1
      \* the k-th cut, in increasing order
      \* the number of cuts before each cut
      rank == [c \in cuts |-> Cardinality({x \in cuts : x < c})]
  IN  Bind(rank, LAMBDA r :
        [k \in 1..n |->
           LET from == CHOOSE c \in cuts : r[c] = k - 1
               to   == CHOOSE c \in cuts : r[c] = k
           IN  SubSeq(s, from + 1, to - 1)])
split(s, sep) == Bind(s, LAMBDA v : SplitValue(v, sep))

RECURSIVE JoinRange(_, _, _, _)
\* pieces[lo] sep ... sep pieces[hi], built by halves
JoinRange(pieces, sep, lo, hi) ==
  IF lo = hi THEN pieces[lo]
  ELSE JoinRange(pieces, sep, lo, (lo + hi) \div 2) \o sep
         \o JoinRange(pieces, sep, (lo + hi) \div 2 + 1, hi)
\* pieces.join(sep)
join(pieces, sep) ==
  Bind(pieces, LAMBDA p : IF Len(p) = 0 THEN <<>> ELSE JoinRange(p, sep, 1, Len(p)))

\* concatenation of a sequence of texts
Flatten(ss) == join(ss, <<>>)

----------------------------------------------------------------------------
(* 12-hour time *)

formatTime12Hour_NoTwelve(time24) ==
  IF IsFalsy(time24) THEN Null
  ELSE LET parts   == split(time24, ":")
           hours   == parts[1]
           minutes == parts[2]
           hour    == parseInt(hours)
           ampm    == IF hour >= 12 THEN <<"p", "m">> ELSE <<"a", "m">>
           hour12  == hour % 12
       IN  StringOf(hour12) \o <<":">> \o minutes \o <<" ">> \o ampm

formatTime12Hour(time24) ==
  IF IsFalsy(time24) THEN Null
  ELSE LET parts   == split(time24, ":")
           hours   == parts[1]
           minutes == parts[2]
           hour    == parseInt(hours)
           ampm    == IF hour >= 12 THEN <<"p", "m">> ELSE <<"a", "m">>
           hour12  == IF hour % 12 = 0 THEN 12 ELSE hour % 12
       IN  StringOf(hour12) \o <<":">> \o minutes \o <<" ">> \o ampm

----------------------------------------------------------------------------
(* Dates.  A Date object is [y, m, d, secs]: the local calendar date       *)
(* (m is 1..12 here; getMonth() is m - 1) and the second of the day.       *)

IsLeap(y) == (y % 4 = 0 /\ y % 100 # 0) \/ y % 400 = 0

DaysInMonth(y, m) ==
  IF m = 2 THEN (IF IsLeap(y) THEN 29 ELSE 28)
  ELSE IF m \in {4, 6, 9, 11} THEN 30 ELSE 31

\* new Date(dateStr + 'T' + hh:mm:ss) in local time, for a valid YYYY-MM-DD
ParseDate(dateStr, secs) ==
  LET parts == split(dateStr, "-")
  IN  [y |-> parseInt(parts[1]), m |-> parseInt(parts[2]),
       d |-> parseInt(parts[3]), secs |-> secs]

\* date.setDate(n) for 1 <= n <= days in the month + 1
setDate(date, n) ==
  IF n <= DaysInMonth(date.y, date.m) THEN [date EXCEPT !.d = n]
  ELSE IF date.m = 12 THEN [date EXCEPT !.y = date.y + 1, !.m = 1, !.d = 1]
  ELSE [date EXCEPT !.m = date.m + 1, !.d = 1]

\* today.setHours(0, 0, 0, 0)
setHours0(date) == [date EXCEPT !.secs = 0]

\* date1 <= date2 on the time line
DateLeq(a, b) ==
  \/ a.y < b.y
  \/ a.y = b.y /\ a.m < b.m
  \/ a.y = b.y /\ a.m = b.m /\ a.d < b.d
  \/ a.y = b.y /\ a.m = b.m /\ a.d = b.d /\ a.secs <= b.secs

getNextDay(dateStr) ==
  LET date  == ParseDate(dateStr, 0)
      next  == setDate(date, date.d + 1)
      year  == next.y
      month == padStart(StringOf(next.m), 2, "0")
      day   == padStart(StringOf(next.d), 2, "0")
  IN  StringOf(year) \o <<"-">> \o month \o <<"-">> \o day

MonthNames == <<"January", "February", "March", "April", "May", "June",
                "July", "August", "September", "October", "November", "December">>
DayNames == <<"Sunday", "Monday", "Tuesday", "Wednesday", "Thursday", "Friday", "Saturday">>

\* days from 0001-01-01 (a Monday in the proleptic Gregorian calendar) to the date
RECURSIVE DaysBeforeMonth(_, _)
DaysBeforeMonth(y, m) == IF m = 1 THEN 0 ELSE DaysBeforeMonth(y, m - 1) + DaysInMonth(y, m - 1)
DayNumber(y, m, d) ==
  LET p == y - 1
  IN  365 * p + (p \div 4) - (p \div 100) + (p \div 400) + DaysBeforeMonth(y, m) + (d - 1)

\* date.getDay(): 0 is Sunday
getDay(date) == (DayNumber(date.y, date.m, date.d) + 1) % 7

formatDate(dateStr) ==
  LET date == ParseDate(dateStr, 0)
  IN  <<MonthNames[date.m], " ">> \o StringOf(date.d) \o <<", ">> \o StringOf(date.y)

formatDateWithDay(dateStr) ==
  LET date == ParseDate(dateStr, 0)
  IN  <<DayNames[getDay(date) + 1], ", ", MonthNames[date.m], " ">>
        \o StringOf(date.d) \o <<", ">> \o StringOf(date.y)

----------------------------------------------------------------------------
(* JavaScript objects: the keys in insertion order, and the value of each. *)
(* A null object reference is NullObj.                                     *)

NullObj == [null |-> TRUE]
EmptyObj == [keys |-> <<>>, vals |-> <<>>]
Has(obj, k) == k \in DOMAIN obj.vals
Get(obj, k) == obj.vals[k]
\* obj[k] = v
Put(obj, k, v) ==
  IF Has(obj, k) THEN [obj EXCEPT !.vals = (k :> v) @@ obj.vals]
  ELSE [keys |-> Append(obj.keys, k), vals |-> (k :> v) @@ obj.vals]
\* delete obj[k]
Delete(obj, k) ==
  [keys |-> SelectSeq(obj.keys, LAMBDA x : x # k),
   vals |-> [x \in (DOMAIN obj.vals) \ {k} |-> obj.vals[x]]]

----------------------------------------------------------------------------
(* business-data.js *)

T0930 == <<"0", "9", ":", "3", "0">>
T0900 == <<"0", "9", ":", "0", "0">>
T1700 == <<"1", "7", ":", "0", "0">>

ClosedDay(day) == [day |-> <<day>>, open |-> Null, close |-> Null, closed |-> TRUE]
OpenDay(day, open, close) == [day |-> <<day>>, open |-> open, close |-> close, closed |-> FALSE]

WeekDays == <<"Monday", "Tuesday", "Wednesday", "Thursday", "Friday", "Saturday", "Sunday">>

\* the hours as shipped
hours ==
  << ClosedDay("Monday"),
     OpenDay("Tuesday", T0930, T1700),
     OpenDay("Wednesday", T0930, T1700),
     OpenDay("Thursday", T0930, T1700),
     OpenDay("Friday", T0930, T1700),
     OpenDay("Saturday", T0900, T1700),
     ClosedDay("Sunday") >>

\* module.exports as shipped (no temporaryClosure is configured)
ShippedData ==
  [ name          |-> <<"Christopher's Meat Market">>,
    shortName     |-> <<"Christopher's">>,
    address       |-> [ street |-> <<"6146 Perth Street">>, city |-> <<"Richmond">>,
                        region |-> <<"Ontario">>, regionCode |-> <<"ON">>,
                        postalCode |-> <<"K0A 2Z0">>, country |-> <<"CA">>,
                        countryCode |-> <<"CA">> ],
    phone         |-> [ display |-> <<"(613) 838-8800">>, tel |-> <<"+1-613-838-8800">> ],
    coordinates   |-> [ latitude |-> <<"45.193608692634434">>,
                        longitude |-> <<"-75.84403566715355">> ],
    url           |-> <<"https://christophersmeatmarket.com">>,
    priceRange    |-> <<"$$">>,
    description   |-> <<"Family-owned butcher shop in Richmond, Ontario, specializing in quality free-range, grain-fed meats. Over 25 years of experience.">>,
    tagline       |-> <<"Quality Products for Families">>,
    hours         |-> hours,
    images        |-> [ defaultImage |-> <<"img/slide-1.jpg">> ],
    servesCuisine |-> <<"Butcher Shop">> ]

\* businessData.f for an optional field f: absent reads undefined (falsy)
Configured(f) == f \in DOMAIN businessData

----------------------------------------------------------------------------
(* Temporary closure.  `now` is what new Date() returns at this read.      *)

getActiveTemporaryClosure_ExclusiveEnd(now) ==
  IF ~Configured("temporaryClosure") THEN NullObj
  ELSE LET today     == setHours0(now)
           startDate == ParseDate(businessData.temporaryClosure.startDate, 0)
           endDate   == ParseDate(businessData.temporaryClosure.endDate, 0)
       IN  IF DateLeq(startDate, today) /\ DateLeq(today, endDate) /\ today # endDate
           THEN businessData.temporaryClosure
           ELSE NullObj

getActiveTemporaryClosure(now) ==
  IF ~Configured("temporaryClosure") THEN NullObj
  ELSE LET today     == setHours0(now)
           startDate == ParseDate(businessData.temporaryClosure.startDate, 0)
           endDate   == ParseDate(businessData.temporaryClosure.endDate, 86399)
       IN  IF DateLeq(startDate, today) /\ DateLeq(today, endDate)
           THEN businessData.temporaryClosure
           ELSE NullObj

----------------------------------------------------------------------------
(* Structured data (JSON-LD) *)

RECURSIVE GroupBySlot(_, _)
\* the forEach of lines 169-177: hoursBySlot after the first entries of hrs
GroupBySlot(hrs, hoursBySlot) ==
  IF hrs = <<>> THEN hoursBySlot
  ELSE LET hour == Head(hrs)
           key  == hour.open \o <<"-">> \o hour.close
           slot == IF Has(hoursBySlot, key) THEN Get(hoursBySlot, key) ELSE <<>>
       IN  IF hour.closed THEN GroupBySlot(Tail(hrs), hoursBySlot)
           ELSE GroupBySlot(Tail(hrs), Put(hoursBySlot, key, Append(slot, hour.day)))

RuleOf_Swapped(hoursBySlot, key) ==
  LET parts == split(key, "-")
  IN  [keys |-> <<"@type", "dayOfWeek", "opens", "closes">>,
       vals |-> [ k \in {"@type", "dayOfWeek", "opens", "closes"} |->
                  CASE k = "@type"     -> <<"OpeningHoursSpecification">>
                    [] k = "dayOfWeek" -> Get(hoursBySlot, key)
                    [] k = "opens"     -> parts[2]
                    [] k = "closes"    -> parts[1] ]]

\* the map callback of lines 179-187
RuleOf(hoursBySlot, key) ==
  LET parts == split(key, "-")
  IN  [keys |-> <<"@type", "dayOfWeek", "opens", "closes">>,
       vals |-> [ k \in {"@type", "dayOfWeek", "opens", "closes"} |->
                  CASE k = "@type"     -> <<"OpeningHoursSpecification">>
                    [] k = "dayOfWeek" -> Get(hoursBySlot, key)
                    [] k = "opens"     -> parts[1]
                    [] k = "closes"    -> parts[2] ]]

OpeningHoursOf(hrs) ==
  LET hoursBySlot == GroupBySlot(hrs, EmptyObj)
  IN  [i \in 1..Len(hoursBySlot.keys) |-> RuleOf(hoursBySlot, hoursBySlot.keys[i])]

\* options.f || otherwise
OptionOr(options, f, otherwise) ==
  IF f \in DOMAIN options /\ ~IsFalsy(options[f]) THEN options[f] ELSE otherwise

\* lines 190-211: the record before the optional keys are added
BaseData(options) ==
  LET address == [keys |-> <<"@type", "streetAddress", "addressLocality", "addressRegion",
                             "postalCode", "addressCountry">>,
                  vals |-> [ k \in {"@type", "streetAddress", "addressLocality",
                                    "addressRegion", "postalCode", "addressCountry"} |->
                    CASE k = "@type"           -> <<"PostalAddress">>
                      [] k = "streetAddress"   -> businessData.address.street
                      [] k = "addressLocality" -> businessData.address.city
                      [] k = "addressRegion"   -> businessData.address.regionCode
                      [] k = "postalCode"      -> businessData.address.postalCode
                      [] k = "addressCountry"  -> businessData.address.countryCode ]]
      geo     == [keys |-> <<"@type", "latitude", "longitude">>,
                  vals |-> [ k \in {"@type", "latitude", "longitude"} |->
                    CASE k = "@type"     -> <<"GeoCoordinates">>
                      [] k = "latitude"  -> businessData.coordinates.latitude
                      [] k = "longitude" -> businessData.coordinates.longitude ]]
      d1 == Put(EmptyObj, "@context", <<"https://schema.org">>)
      d2 == Put(d1, "@type", <<"ButcherShop">>)
      d3 == Put(d2, "name", businessData.name)
      d4 == Put(d3, "image", businessData.url \o <<"/">>
                               \o OptionOr(options, "image", businessData.images.defaultImage))
      d5 == Put(d4, "address", address)
      d6 == Put(d5, "geo", geo)
      d7 == Put(d6, "url", businessData.url)
      d8 == Put(d7, "telephone", businessData.phone.tel)
  IN  Put(d8, "priceRange", businessData.priceRange)

\* lines 218-226: description and servesCuisine
WithDescription(data, options) ==
  LET d1 == Put(data, "description", OptionOr(options, "description", businessData.description))
  IN  IF Configured("servesCuisine") /\ ~IsFalsy(businessData.servesCuisine)
      THEN Put(d1, "servesCuisine", businessData.servesCuisine)
      ELSE d1

generateStructuredData_IgnoreClosure(options, now) ==
  LET spec == OpeningHoursOf(businessData.hours)
      data == BaseData(options)
      withHours == IF Len(spec) > 0 THEN Put(data, "openingHoursSpecification", spec) ELSE data
  IN  WithDescription(withHours, options)

generateStructuredData(options, now) ==
  LET tempClosure == getActiveTemporaryClosure(now)
      openingHoursSpecification ==
        IF tempClosure = NullObj THEN OpeningHoursOf(businessData.hours) ELSE <<>>
      data == BaseData(options)
      withHours == IF Len(openingHoursSpecification) > 0
                   THEN Put(data, "openingHoursSpecification", openingHoursSpecification)
                   ELSE data
  IN  WithDescription(withHours, options)

----------------------------------------------------------------------------
(* Markup projections *)

\* the separator ' - ' written with an en dash (U+2013) in the source
Dash == " -- "

WarningIcon == "<svg xmlns=\"http://www.w3.org/2000/svg\" ...>...</svg>"
CardOpen == "<div class=\"alert alert-warning d-flex align-items-start mb-3\" role=\"alert\" ...><div ...>"
CardMessageOpen == "</div><div ...><div style=\"font-weight: bold; margin-bottom: 5px;\">"
CardDatesOpen == "</div><div style=\"margin-bottom: 5px;\">"
CardReturnOpen == "</div><div>We will return to regular hours on <strong>"
CardClose == "</strong></div></div></div>"

\* '' when no closure is active at `now`
generateClosureCardHTML(now) ==
  LET tempClosure == getActiveTemporaryClosure(now)
  IN  IF tempClosure = NullObj THEN <<>>
      ELSE LET startFormatted      == formatDate(tempClosure.startDate)
               endFormatted        == formatDate(tempClosure.endDate)
               returnDateStr       == getNextDay(tempClosure.endDate)
               returnDateFormatted == formatDateWithDay(returnDateStr)
               message == IF "message" \in DOMAIN tempClosure /\ ~IsFalsy(tempClosure.message)
                          THEN tempClosure.message ELSE <<"Temporarily closed">>
           IN  <<CardOpen, WarningIcon, CardMessageOpen>> \o message
                 \o <<CardDatesOpen>> \o startFormatted \o <<Dash>> \o endFormatted
                 \o <<CardReturnOpen>> \o returnDateFormatted \o <<CardClose>>

RowOpen == "<tr><td><strong>"
RowMid == "</strong></td><td>"
RowClose == "</td></tr>"

\* the forEach callback of lines 283-286: the row of one entry
RowOf(hour) ==
  LET timeText == IF hour.closed THEN <<"Closed">>
                  ELSE formatTime12Hour(hour.open) \o <<Dash>> \o formatTime12Hour(hour.close)
  IN  <<RowOpen>> \o hour.day \o <<RowMid>> \o timeText \o <<RowClose>>

RECURSIVE RowsOf(_)
RowsOf(hrs) == IF hrs = <<>> THEN <<>> ELSE RowOf(Head(hrs)) \o RowsOf(Tail(hrs))

generateHoursTableHTML_OpenOnly ==
  RowsOf(SelectSeq(businessData.hours, LAMBDA hour : ~hour.closed))

generateHoursTableHTML ==
  RowsOf(businessData.hours)

generateAddressBarHTML ==
  businessData.address.street \o <<" | ">> \o businessData.address.city \o <<", ">>
    \o businessData.address.region \o <<" ">> \o businessData.address.postalCode
    \o <<" | ">> \o businessData.phone.display

----------------------------------------------------------------------------
(* JSON.stringify(data, null, 2).  A text of several lines is kept as the  *)
(* sequence of its lines until it is joined with newlines.  The kind of a  *)
(* value is fixed by its key in the records this script builds.            *)

Newline == "\n"
Quote == "\""

RECURSIVE Indent(_)
\* the indentation of nesting level n, two spaces a level
Indent(n) == IF n = 0 THEN <<>> ELSE <<"  ">> \o Indent(n - 1)

Quoted(str) == <<Quote>> \o str \o <<Quote>>
\* the lines with `prefix` put before the first one
PrefixFirst(lines, prefix) == <<prefix \o Head(lines)>> \o Tail(lines)
\* the lines with a comma after the last one
WithComma(lines) ==
  SubSeq(lines, 1, Len(lines) - 1) \o <<lines[Len(lines)] \o <<",">> >>
\* the lines of the items, a comma after every item but the last
Separated(items) ==
  Flatten([i \in 1..Len(items) |->
             IF i < Len(items) THEN WithComma(items[i]) ELSE items[i]])

RECURSIVE ObjectLines(_, _)
RECURSIVE ValueLines(_, _, _)
\* the lines of the value v of key k, the first line without indentation
ValueLines(k, v, level) ==
  CASE k \in {"address", "geo"} -> ObjectLines(v, level)
    [] k \in {"latitude", "longitude"} -> <<v>>
    [] k = "dayOfWeek" ->
         IF Len(v) = 0 THEN << <<"[]">> >>
         ELSE << <<"[">> >>
                \o Separated([i \in 1..Len(v) |-> <<Indent(level + 1) \o Quoted(v[i])>>])
                \o <<Indent(level) \o <<"]">> >>
    [] k = "openingHoursSpecification" ->
         IF Len(v) = 0 THEN << <<"[]">> >>
         ELSE << <<"[">> >>
                \o Separated([i \in 1..Len(v) |->
                                PrefixFirst(ObjectLines(v[i], level + 1), Indent(level + 1))])
                \o <<Indent(level) \o <<"]">> >>
    [] OTHER -> <<Quoted(v)>>
ObjectLines(obj, level) ==
  IF Len(obj.keys) = 0 THEN << <<"{}">> >>
  ELSE << <<"{">> >>
         \o Separated([i \in 1..Len(obj.keys) |->
              PrefixFirst(ValueLines(obj.keys[i], Get(obj, obj.keys[i]), level + 1),
                          Indent(level + 1) \o <<Quote, obj.keys[i], "\": ">>)])
         \o <<Indent(level) \o <<"}">> >>

stringify(data) == join(ObjectLines(data, 0), <<Newline>>)

generateStructuredDataJSON(options, now) == stringify(generateStructuredData(options, now))

----------------------------------------------------------------------------
(* The anchors.  Every marker and tag is one atom.  An atom that holds the  *)
(* character < (a marker, a tag, other markup, a value such as MarkupName)  *)
(* holds the text of no marker or tag of the patterns other than itself.    *)

End == "<!-- END AUTO-UPDATE -->"
SDOpen == "<!-- AUTO-UPDATE: Structured Data -->"
ScriptOpen == "<script type=\"application/ld+json\">"
ScriptClose == "</script>"
ABOpen == "<!-- AUTO-UPDATE: Address bar -->"
ABTag == "<div class=\"address-bar\">"
DivClose == "</div>"
NBOpen == "<!-- AUTO-UPDATE: Navigation brand -->"
NBTag == "<a class=\"navbar-brand\" href=\"index.html\">"
AClose == "</a>"
BHOpen == "<!-- AUTO-UPDATE: Brand header -->"
BHTag == "<div class=\"brand\">"
HTOpen == "<!-- AUTO-UPDATE: Business hours table -->"
CPOpen == "<!-- AUTO-UPDATE: Contact phone -->"
CPTag == "<p>Phone:<br><strong>"
StrongClose == "</strong></p>"
CAOpen == "<!-- AUTO-UPDATE: Contact address -->"
CATag == "<p>Address:<br><strong>"
Br == "<br>"
TableOpen == "<table class=\"business-hours-table\">"
TableOpenDimmed == "<table class=\"business-hours-table\" style=\"opacity: 0.7;\"><caption ...>Regular hours (currently closed)</caption>"
TableClose == "</table>"

\* markup of the documents that is no part of any anchor pattern
OtherMarkup == {"<p>Welcome</p>", "<table>old</table>", "<!-- generated -->"}
\* a configured value holding the character <
MarkupName == "Fish <&> Chips"

\* the atoms made of white space only (what \s matches)
\* the indentation the legacy script writes around and inside the hours table
Pad17 == "                 "
Pad20 == "                    "
WsAtoms == {" ", "  ", "    ", Pad17, Pad20, Newline}
\* the atoms holding the character < (what [^<] does not match)
LtAtoms ==
  { End, SDOpen, ScriptOpen, ScriptClose, ABOpen, ABTag, DivClose, NBOpen, NBTag, AClose,
    BHOpen, BHTag, HTOpen, CPOpen, CPTag, StrongClose, CAOpen, CATag, Br,
    TableOpen, TableOpenDimmed, TableClose, RowOpen, RowMid, RowClose,
    CardOpen, WarningIcon, CardMessageOpen, CardDatesOpen, CardReturnOpen, CardClose,
    MarkupName } \cup OtherMarkup

At(doc, i) == IF i \in 1..Len(doc) THEN doc[i] ELSE ""

RECURSIVE SkipWs(_, _)
\* \s* from position i: the first position at or after i that holds no white space
SkipWs(doc, i) == IF At(doc, i) \in WsAtoms THEN SkipWs(doc, i + 1) ELSE i

RECURSIVE SkipText(_, _)
\* [^<]* from position i: the first position at or after i that holds a < (or the end)
SkipText(doc, i) ==
  IF i > Len(doc) \/ doc[i] \in LtAtoms THEN i ELSE SkipText(doc, i + 1)

\* close \s* END at position i: the position of END, 0 when there is no match
CloseAt(doc, i, close) ==
  IF At(doc, i) = close /\ At(doc, SkipWs(doc, i + 1)) = End THEN SkipWs(doc, i + 1) ELSE 0

NoMatch == [s |-> 0]
\* a match: s..g1 is group 1 (start), g3..e is group 3 (end)
MatchOf(s, g1, g3, e) == [s |-> s, g1 |-> g1, g3 |-> g3, e |-> e]

\* [\s\S]*? from position i up to the first close \s* END: the position of that close,
\* 0 when there is none
FirstCloseFrom(doc, i, close) ==
  LET found == {c \in i..Len(doc) : CloseAt(doc, c, close) # 0}
  IN  IF found = {} THEN 0 ELSE Min(found)

\* the position of the first END at or after position i, 0 when there is none
FirstEndFrom(doc, i) ==
  LET found == {e \in i..Len(doc) : doc[e] = End}
  IN  IF found = {} THEN 0 ELSE Min(found)

\* (open \s* tag) \s* ([\s\S]*?) \s* (close \s* END) tried at position i
LazyBlockAt(doc, i, open, tag, close) ==
  LET t == SkipWs(doc, i + 1)
      c == FirstCloseFrom(doc, t + 1, close)
  IN  IF At(doc, i) = open /\ At(doc, t) = tag /\ c # 0
      THEN MatchOf(i, t, c, CloseAt(doc, c, close))
      ELSE NoMatch

\* (open \s* tag) ([^<]+) (close \s* END) tried at position i
TextBlockAt(doc, i, open, tags, close) ==
  LET t == SkipWs(doc, i + 1)
      c == SkipText(doc, t + 1)
  IN  IF At(doc, i) = open /\ At(doc, t) \in tags /\ c > t + 1 /\ CloseAt(doc, c, close) # 0
      THEN MatchOf(i, t, c, CloseAt(doc, c, close))
      ELSE NoMatch

\* (open \s* tag) ([^<]+<br>[^<]+) (close \s* END) tried at position i
TwoLineBlockAt(doc, i, open, tag, close) ==
  LET t == SkipWs(doc, i + 1)
      b == SkipText(doc, t + 1)
      c == SkipText(doc, b + 1)
  IN  IF /\ At(doc, i) = open /\ At(doc, t) = tag
         /\ b > t + 1 /\ At(doc, b) = Br /\ c > b + 1 /\ CloseAt(doc, c, close) # 0
      THEN MatchOf(i, t, c, CloseAt(doc, c, close))
      ELSE NoMatch

\* (open) \s* ([\s\S]*?) \s* (END) tried at position i
LazyRegionAt(doc, i, open) ==
  LET e == FirstEndFrom(doc, i + 1)
  IN  IF At(doc, i) = open /\ e # 0 THEN MatchOf(i, i, e, e) ELSE NoMatch

Kinds == <<"structuredData", "addressBar", "navBrand", "brandHeader",
           "hoursTable", "phone", "address">>

\* the regular expression of each kind tried at position i
RegexAt(kind, doc, i) ==
  CASE kind = "structuredData" -> LazyBlockAt(doc, i, SDOpen, ScriptOpen, ScriptClose)
    [] kind = "addressBar"     -> TextBlockAt(doc, i, ABOpen, {ABTag}, DivClose)
    [] kind = "navBrand"       -> TextBlockAt(doc, i, NBOpen, {NBTag}, AClose)
    [] kind = "brandHeader"    -> TextBlockAt(doc, i, BHOpen, {BHTag}, DivClose)
    [] kind = "hoursTable"     -> LazyRegionAt(doc, i, HTOpen)
    [] kind = "phone"          -> TextBlockAt(doc, i, CPOpen, {CPTag}, StrongClose)
    [] kind = "address"        -> TwoLineBlockAt(doc, i, CAOpen, CATag, StrongClose)
    [] kind = "legacyHoursTable" -> LazyBlockAt(doc, i, HTOpen, TableOpen, TableClose)

\* the literal every pattern of the kind begins with
OpenOf(kind) ==
  CASE kind = "structuredData" -> SDOpen
    [] kind = "addressBar"     -> ABOpen
    [] kind = "navBrand"       -> NBOpen
    [] kind = "brandHeader"    -> BHOpen
    [] kind = "hoursTable"     -> HTOpen
    [] kind = "phone"          -> CPOpen
    [] kind = "address"        -> CAOpen
    [] kind = "legacyHoursTable" -> HTOpen

\* regex.exec(content): the leftmost match; a match can only start where the opening
\* sentinel of the kind stands
ExecFrom(kind, doc, open) ==
  LET starts == {i \in {j \in 1..Len(doc) : doc[j] = open} : RegexAt(kind, doc, i) # NoMatch}
  IN  IF starts = {} THEN NoMatch ELSE RegexAt(kind, doc, Min(starts))
ExecValue(kind, doc) == Bind(OpenOf(kind), LAMBDA open : ExecFrom(kind, doc, open))
Exec(kind, doc) == Bind(doc, LAMBDA d : ExecValue(kind, d))
\* regex.test(content)
Test(kind, doc) == Exec(kind, doc) # NoMatch

\* content.replace(regex, function (match, start, old, end) { return start + new + end })
ReplaceValue(doc, m, interior) ==
  IF m = NoMatch THEN doc
  ELSE SubSeq(doc, 1, m.s - 1) \o SubSeq(doc, m.s, m.g1) \o interior
         \o SubSeq(doc, m.g3, m.e) \o SubSeq(doc, m.e + 1, Len(doc))
Replace(kind, doc, interior) ==
  Bind(doc, LAMBDA d : Bind(ExecValue(kind, d), LAMBDA m : ReplaceValue(d, m, interior)))

----------------------------------------------------------------------------
(* updateHTMLFile.  `reads` are the values of new Date() at the reads of   *)
(* the clock the function makes, in program order:                         *)
(*   reads[1]  generateStructuredDataJSON()          line 314              *)
(*   reads[2]  generateStructuredData(), not index   line 319              *)
(*   reads[3]  generateClosureCardHTML()             line 364              *)
(*   reads[4]  getActiveTemporaryClosure()           line 366              *)

PublicDir == "/site/public"
PathOf(name) == <<PublicDir, "/", name>>
HtmlFiles == <<"index.html", "contact.html", "specials.html", "services.html">>
FileNames == Range(HtmlFiles)
\* filePath.includes(name)
includes(filePath, name) == \E i \in 1..Len(filePath) : filePath[i] = name

\* lines 325-327: every line after the first one indented by four spaces
IndentedJSON(json) ==
  Bind(split(json, Newline), LAMBDA lines :
    join([i \in 1..Len(lines) |-> IF i = 1 THEN lines[i] ELSE <<"    ">> \o lines[i]],
         <<Newline>>))

UpdateStructuredData_KeepCuisine(filePath, content, reads) ==
  IF ~Test("structuredData", content) THEN content
  ELSE Replace("structuredData", content,
               <<Newline, "    ">> \o IndentedJSON(generateStructuredDataJSON(<<>>, reads[1]))
                 \o <<Newline, "    ">>)

\* lines 312-330
UpdateStructuredData(filePath, content, reads) ==
  IF ~Test("structuredData", content) THEN content
  ELSE LET isIndex == includes(filePath, "index.html")
           structuredDataJSON ==
             IF isIndex THEN generateStructuredDataJSON(<<>>, reads[1])
             ELSE stringify(Delete(generateStructuredData(<<>>, reads[2]), "servesCuisine"))
       IN  Replace("structuredData", content,
                   <<Newline, "    ">> \o IndentedJSON(structuredDataJSON) \o <<Newline, "    ">>)

\* lines 332-340
UpdateAddressBar(content) ==
  IF Test("addressBar", content) THEN Replace("addressBar", content, generateAddressBarHTML)
  ELSE content

\* lines 342-349
UpdateNavBrand(content) ==
  IF Test("navBrand", content) THEN Replace("navBrand", content, businessData.shortName)
  ELSE content

\* lines 351-358
UpdateBrandHeader(content) ==
  IF Test("brandHeader", content) THEN Replace("brandHeader", content, businessData.name)
  ELSE content

\* lines 362-381
UpdateHoursTable(content, reads) ==
  IF ~Test("hoursTable", content) THEN content
  ELSE LET closureCardHTML == generateClosureCardHTML(reads[3])
           hoursTableHTML  == generateHoursTableHTML
           tempClosure     == getActiveTemporaryClosure(reads[4])
           table == IF tempClosure # NullObj
                    THEN <<TableOpenDimmed>> \o hoursTableHTML \o <<TableClose>>
                    ELSE <<TableOpen>> \o hoursTableHTML \o <<TableClose>>
       IN  Replace("hoursTable", content, closureCardHTML \o table)

\* lines 383-390
UpdatePhone(content) ==
  IF Test("phone", content) THEN Replace("phone", content, businessData.phone.display)
  ELSE content

\* lines 392-400
UpdateAddress(content) ==
  LET addressHTML == businessData.address.street \o <<Br>> \o businessData.address.city
                       \o <<", ">> \o businessData.address.region \o <<" ">>
                       \o businessData.address.postalCode
  IN  IF Test("address", content) THEN Replace("address", content, addressHTML)
      ELSE content

\* the k-th step of lines 311-401 on the content it finds
Step(k, filePath, content, reads) ==
  LET isContact == includes(filePath, "contact.html")
  IN  CASE k = 1 -> UpdateStructuredData(filePath, content, reads)
        [] k = 2 -> UpdateAddressBar(content)
        [] k = 3 -> UpdateNavBrand(content)
        [] k = 4 -> UpdateBrandHeader(content)
        [] k = 5 -> IF isContact THEN UpdateHoursTable(content, reads) ELSE content
        [] k = 6 -> IF isContact THEN UpdatePhone(content) ELSE content
        [] k = 7 -> IF isContact THEN UpdateAddress(content) ELSE content

RECURSIVE StagesFrom(_, _, _)
StagesFrom(filePath, stages, reads) ==
  IF Len(stages) > Len(Kinds) THEN stages
  ELSE Bind(Append(stages, Step(Len(stages), filePath, stages[Len(stages)], reads)),
            LAMBDA next : StagesFrom(filePath, next, reads))

\* the content before each of the seven steps and after the last: stages[k] is what the
\* pattern of Kinds[k] is tested on, when the step of that kind is taken at all
Stages(filePath, content, reads) ==
  Bind(content, LAMBDA c : StagesFrom(filePath, <<c>>, reads))

\* the kinds whose step is taken for the file
KindsFor(filePath) ==
  IF includes(filePath, "contact.html") THEN 1..7 ELSE 1..4

\* the kinds whose replace callback ran (each sets updated = true)
MatchedIn(filePath, stages) ==
  {k \in KindsFor(filePath) : Test(Kinds[k], stages[k])}
Matched(filePath, content, reads) ==
  Bind(Stages(filePath, content, reads), LAMBDA stages : MatchedIn(filePath, stages))

updateHTMLFile_WriteAlways(filePath, content, reads) ==
  Bind(Stages(filePath, content, reads), LAMBDA stages :
    [content |-> stages[Len(stages)], updated |-> TRUE])

\* lines 307-408: the content after the replacements and the flag `updated`, which is
\* both whether writeFileSync is called with that content and the value returned
updateHTMLFile(filePath, content, reads) ==
  Bind(Stages(filePath, content, reads), LAMBDA stages :
    [content |-> stages[Len(stages)], updated |-> MatchedIn(filePath, stages) # {}])

----------------------------------------------------------------------------
(* The legacy copy of the script (src/unnamed/part_001).  It knows no      *)
(* temporary closure and reads no clock.  Its address bar, navigation      *)
(* brand, brand header, phone and address steps are, character for         *)
(* character, the steps of the current script.                             *)

legacy_generateStructuredData_HoursLast(options) ==
  LET withOptional == WithDescription(BaseData(options), options)
  IN  Put(withOptional, "openingHoursSpecification", OpeningHoursOf(businessData.hours))

\* part_001 lines 41-101: the opening hours are always a key of the record, after
\* priceRange, and no closure is looked at
legacy_generateStructuredData(options) ==
  LET openingHoursSpecification == OpeningHoursOf(businessData.hours)
      data == Put(BaseData(options), "openingHoursSpecification", openingHoursSpecification)
  IN  WithDescription(data, options)

\* part_001 lines 108-111
legacy_generateStructuredDataJSON(options) == stringify(legacy_generateStructuredData(options))

RECURSIVE trimRight(_)
\* String.prototype.trimRight
trimRight(s) ==
  IF s # <<>> /\ s[Len(s)] \in WsAtoms THEN trimRight(SubSeq(s, 1, Len(s) - 1)) ELSE s

\* part_001 lines 119-122: the row of one entry, indented, on a line of its own
legacy_RowOf(hour) ==
  LET timeText == IF hour.closed THEN <<"Closed">>
                  ELSE formatTime12Hour(hour.open) \o <<Dash>> \o formatTime12Hour(hour.close)
  IN  <<Pad20, RowOpen>> \o hour.day \o <<RowMid>> \o timeText \o <<RowClose, Newline>>

RECURSIVE legacy_RowsOf(_)
legacy_RowsOf(hrs) ==
  IF hrs = <<>> THEN <<>> ELSE legacy_RowOf(Head(hrs)) \o legacy_RowsOf(Tail(hrs))

\* part_001 lines 117-124
legacy_generateHoursTableHTML == trimRight(legacy_RowsOf(businessData.hours))

\* part_001 lines 148-166
legacy_UpdateStructuredData(filePath, content) ==
  IF ~Test("structuredData", content) THEN content
  ELSE LET isIndex == includes(filePath, "index.html")
           structuredDataJSON ==
             IF isIndex THEN legacy_generateStructuredDataJSON(<<>>)
             ELSE stringify(Delete(legacy_generateStructuredData(<<>>), "servesCuisine"))
       IN  Replace("structuredData", content,
                   <<Newline, "    ">> \o IndentedJSON(structuredDataJSON) \o <<Newline, "    ">>)

\* part_001 lines 198-206: the pattern wants the table element inside the anchor, and
\* only what stands between its tags is replaced
legacy_UpdateHoursTable(content) ==
  IF ~Test("legacyHoursTable", content) THEN content
  ELSE Replace("legacyHoursTable", content,
               <<Newline, Pad17>> \o legacy_generateHoursTableHTML \o <<Newline, Pad17>>)

legacy_Kinds == <<"structuredData", "addressBar", "navBrand", "brandHeader",
                  "legacyHoursTable", "phone", "address">>

\* the k-th step of part_001 lines 147-225 on the content it finds
legacy_Step(k, filePath, content) ==
  LET isContact == includes(filePath, "contact.html")
  IN  CASE k = 1 -> legacy_UpdateStructuredData(filePath, content)
        [] k = 2 -> UpdateAddressBar(content)
        [] k = 3 -> UpdateNavBrand(content)
        [] k = 4 -> UpdateBrandHeader(content)
        [] k = 5 -> IF isContact THEN legacy_UpdateHoursTable(content) ELSE content
        [] k = 6 -> IF isContact THEN UpdatePhone(content) ELSE content
        [] k = 7 -> IF isContact THEN UpdateAddress(content) ELSE content

RECURSIVE legacy_StagesFrom(_, _)
legacy_StagesFrom(filePath, stages) ==
  IF Len(stages) > Len(legacy_Kinds) THEN stages
  ELSE Bind(Append(stages, legacy_Step(Len(stages), filePath, stages[Len(stages)])),
            LAMBDA next : legacy_StagesFrom(filePath, next))

legacy_Stages(filePath, content) ==
  Bind(content, LAMBDA c : legacy_StagesFrom(filePath, <<c>>))

\* part_001 lines 143-231: the content after the replacements and the flag `updated`
legacy_updateHTMLFile(filePath, content) ==
  Bind(legacy_Stages(filePath, content), LAMBDA stages :
    [content |-> stages[Len(stages)],
     updated |-> \E k \in KindsFor(filePath) : Test(legacy_Kinds[k], stages[k])])

----------------------------------------------------------------------------
(* File operations that fail.  A file operation that `denied` names        *)
(* throws.  fs.writeFileSync opens the file for writing, which truncates   *)
(* it, and then writes: "open" fails before the file is touched, "write"   *)
(* fails after the truncation, with part of the data written.              *)

\* no operation fails, or one operation on one file does
Denials ==
  {{}} \cup {{<<op, name>>} : op \in {"read", "open", "write"}, name \in FileNames}

\* how many atoms a failed write has written, at most
MaxWritten == 2
\* the texts a write that failed after the truncation can leave in the file
PartialWrites(content) ==
  {SubSeq(content, 1, n) : n \in 0..Min({MaxWritten, Len(content) - 1})}

----------------------------------------------------------------------------
(* The formatter (src/scripts/format-html.js lines 1-71).  js-beautify is  *)
(* a library outside the repository.  Of its result the model keeps what   *)
(* the options of lines 23-31 and the purpose of the library fix: white    *)
(* space is all it changes, and the text ends with one newline.  Which     *)
(* white space it writes is a choice among a few layouts.                  *)

Dropped == "(dropped)"
\* the text with every run of white space replaced by the one atom `gap`
Relaid(content, gap) ==
  SelectSeq([i \in 1..Len(content) |->
               IF content[i] \notin WsAtoms THEN content[i]
               ELSE IF i > 1 /\ content[i - 1] \in WsAtoms THEN Dropped ELSE gap],
            LAMBDA atom : atom # Dropped)

\* end_with_newline: true
EndWithNewline(content) == trimRight(content) \o <<Newline>>

\* lines 22-31: the texts beautify(content, options) can return
beautify(content) ==
  { EndWithNewline(content),
    EndWithNewline(Relaid(content, Newline)),
    EndWithNewline(Relaid(content, " ")) }

\* lines 20-38: what one call can leave in the file and return.  Every exception is
\* caught (lines 35-37): the call logs the error and returns false.
formatHTMLFile(name, content) ==
  IF <<"read", name>> \in denied \/ <<"open", name>> \in denied
  THEN {[content |-> content, returned |-> FALSE]}
  ELSE IF <<"write", name>> \in denied
  THEN {[content |-> left, returned |-> FALSE] :
          left \in UNION {PartialWrites(formatted) : formatted \in beautify(content)}}
  ELSE {[content |-> formatted, returned |-> TRUE] : formatted \in beautify(content)}

----------------------------------------------------------------------------
(* The inputs of the model *)

Pad2(n) == padStart(StringOf(n), 2, "0")
\* the text HH:MM of a time of day
TimeStr(h, m) == Pad2(h) \o <<":">> \o Pad2(m)
\* the text YYYY-MM-DD of a calendar date
DateStr(y, m, d) == padStart(StringOf(y), 4, "0") \o <<"-">> \o Pad2(m) \o <<"-">> \o Pad2(d)

TimeInputs == {TimeStr(h, m) : h \in 0..23, m \in 0..59} \cup {Null}

\* the years the dates of the model are drawn from
Years == {999, 2024, 2025}
DateInputs ==
  UNION { {DateStr(y, md[1], md[2]) :
             md \in {x \in (1..12) \X (1..31) : x[2] <= DaysInMonth(y, x[1])}} :
          y \in Years }

NoCall == [fn |-> "none"]
NoPatch == [path |-> "none"]
Missing == <<"ENOENT">>
NoFiles == [f \in {} |-> Missing]
StartClock == [y |-> 2025, m |-> 12, d |-> 30, secs |-> 43200]
\* the clock at the midnight that follows `now`
Midnight(now) == [setDate(now, now.d + 1) EXCEPT !.secs = 0]
\* what the four reads of the clock of one call can return: midnight may pass before
\* any of them
ReadsFrom(now) ==
  IF now.secs = 0 THEN {<<now, now, now, now>>}
  ELSE {<<IF 1 < j THEN now ELSE Midnight(now), IF 2 < j THEN now ELSE Midnight(now),
          IF 3 < j THEN now ELSE Midnight(now), IF 4 < j THEN now ELSE Midnight(now)>> :
          j \in 1..5}

\* main() is not running
NoRun == [status |-> "none"]

----------------------------------------------------------------------------
(* Specification of the formatting helpers: formatTime12Hour, getNextDay   *)

InitFormat ==
  /\ businessData = ShippedData
  /\ clock = StartClock
  /\ files = NoFiles
  /\ last = NoPatch
  /\ call = NoCall
  /\ ret = Null
  /\ denied = {}
  /\ run = NoRun

CallFormatTime12Hour ==
  /\ call = NoCall
  /\ \E time24 \in TimeInputs :
       /\ call' = [fn |-> "formatTime12Hour", arg |-> time24]
       /\ ret' = formatTime12Hour(time24)
  /\ UNCHANGED <<businessData, clock, files, last, denied, run>>

CallGetNextDay ==
  /\ call = NoCall
  /\ \E dateStr \in DateInputs :
       /\ call' = [fn |-> "getNextDay", arg |-> dateStr]
       /\ ret' = getNextDay(dateStr)
  /\ UNCHANGED <<businessData, clock, files, last, denied, run>>

NextFormat == CallFormatTime12Hour \/ CallGetNextDay

SpecFormat == InitFormat /\ [][NextFormat]_vars

----------------------------------------------------------------------------
(* Claims about the formatting helpers (under SpecFormat) *)

\* the hour of the 12-hour clock for each hour 0..23 of the 24-hour clock
Hour12Text ==
  << <<"1", "2">>, <<"1">>, <<"2">>, <<"3">>, <<"4">>, <<"5">>, <<"6">>, <<"7">>, <<"8">>,
     <<"9">>, <<"1", "0">>, <<"1", "1">>,
     <<"1", "2">>, <<"1">>, <<"2">>, <<"3">>, <<"4">>, <<"5">>, <<"6">>, <<"7">>, <<"8">>,
     <<"9">>, <<"1", "0">>, <<"1", "1">> >>

\* what the claim expects of the time HH:MM written as the text t, HH = h
Expected12Hour(t, h) ==
  Hour12Text[h + 1] \o <<":">> \o SubSeq(t, 4, 5) \o <<" ">>
    \o (IF h < 12 THEN <<"a", "m">> ELSE <<"p", "m">>)

\* C8: formatTime12Hour maps every HH:MM (00 <= HH <= 23) to h:MM am|pm, h = HH mod 12
\* with 0 shown as 12, am exactly when HH < 12, the minutes as written, no leading zero
\* on the hour; null gives null.
C8_FormatTime12Hour ==
  call.fn = "formatTime12Hour" =>
    IF call.arg = Null THEN ret = Null
    ELSE /\ \E h \in 0..23, m \in 0..59 :
              call.arg = TimeStr(h, m) /\ ret = Expected12Hour(call.arg, h)
         /\ ret[1] # "0"
         /\ call.arg = <<"0", "0", ":", "0", "0">> => ret = <<"1", "2", ":", "0", "0", " ", "a", "m">>
         /\ call.arg = <<"1", "2", ":", "0", "0">> => ret = <<"1", "2", ":", "0", "0", " ", "p", "m">>
         /\ call.arg = <<"2", "3", ":", "5", "9">> => ret = <<"1", "1", ":", "5", "9", " ", "p", "m">>

C8_Witness ==
  /\ call.fn = "formatTime12Hour"
  /\ call.arg = <<"0", "0", ":", "0", "5">>
  /\ ret = <<"1", "2", ":", "0", "5", " ", "a", "m">>

\* the calendar date whose day number is one more than that of y-m-d
FollowingDate(y, m, d) ==
  CHOOSE n \in ((y..(y + 1)) \X (1..12) \X (1..31)) :
    /\ n[3] <= DaysInMonth(n[1], n[2])
    /\ DayNumber(n[1], n[2], n[3]) = DayNumber(y, m, d) + 1

\* C9: getNextDay returns, for every valid calendar date YYYY-MM-DD, the following
\* calendar date zero-padded to YYYY-MM-DD (month ends, year ends, February).
C9_NextDay ==
  call.fn = "getNextDay" =>
    LET date == ParseDate(call.arg, 0)
        n    == FollowingDate(date.y, date.m, date.d)
    IN  ret = DateStr(n[1], n[2], n[3])

\* the same for the dates whose following date has a four-digit year
C9_NextDayFourDigitYear ==
  call.fn = "getNextDay" =>
    LET date == ParseDate(call.arg, 0)
        n    == FollowingDate(date.y, date.m, date.d)
    IN  n[1] >= 1000 => ret = DateStr(n[1], n[2], n[3])

----------------------------------------------------------------------------
(* Specification of the closure test: getActiveTemporaryClosure over the   *)
(* configured window and the clock                                         *)

\* the days the windows and the clock of the model are drawn from, in time order
ModelDays ==
  << <<2025, 2, 27>>, <<2025, 2, 28>>, <<2025, 3, 1>>, <<2025, 12, 31>>, <<2026, 1, 1>> >>
ModelSecs == {0, 43200, 86399}

DayStr(day) == DateStr(day[1], day[2], day[3])

Closures ==
  {[startDate |-> DayStr(a), endDate |-> DayStr(b), message |-> <<"Closed for holidays">>] :
     a \in Range(ModelDays), b \in Range(ModelDays)}

WithClosure(data, closure) == [temporaryClosure |-> closure] @@ data

Clocks == {[y |-> day[1], m |-> day[2], d |-> day[3], secs |-> s] :
             day \in Range(ModelDays), s \in ModelSecs}

InitClosure ==
  /\ businessData \in {ShippedData} \cup {WithClosure(ShippedData, c) : c \in Closures}
  /\ clock \in Clocks
  /\ files = NoFiles
  /\ last = NoPatch
  /\ call = NoCall
  /\ ret = Null
  /\ denied = {}
  /\ run = NoRun

CallGetActiveTemporaryClosure ==
  /\ call = NoCall
  /\ call' = [fn |-> "getActiveTemporaryClosure", now |-> clock]
  /\ ret' = getActiveTemporaryClosure(clock)
  /\ UNCHANGED <<businessData, clock, files, last, denied, run>>

NextClosure == CallGetActiveTemporaryClosure

SpecClosure == InitClosure /\ [][NextClosure]_vars

\* today's local date lies in [startDate, endDate], both ends included
InWindow(now) ==
  /\ Configured("temporaryClosure")
  /\ LET s == ParseDate(businessData.temporaryClosure.startDate, 0)
         e == ParseDate(businessData.temporaryClosure.endDate, 0)
         t == DayNumber(now.y, now.m, now.d)
     IN  DayNumber(s.y, s.m, s.d) <= t /\ t <= DayNumber(e.y, e.m, e.d)

\* C5: getActiveTemporaryClosure returns the configured closure record iff
\* startDate <= today's date <= endDate (ends included, time of day ignored), null for
\* every other date and whenever no temporaryClosure is configured.
C5_ActiveClosure ==
  call.fn = "getActiveTemporaryClosure" =>
    /\ InWindow(call.now) => ret = businessData.temporaryClosure
    /\ ~InWindow(call.now) => ret = NullObj

\* the closure is returned on its last day, late in the evening
C5_Witness ==
  /\ call.fn = "getActiveTemporaryClosure"
  /\ Configured("temporaryClosure")
  /\ businessData.temporaryClosure.startDate # businessData.temporaryClosure.endDate
  /\ DateStr(call.now.y, call.now.m, call.now.d) = businessData.temporaryClosure.endDate
  /\ call.now.secs = 86399
  /\ ret = businessData.temporaryClosure

----------------------------------------------------------------------------
(* Specification of the projections of the hours: generateStructuredData   *)
(* and generateHoursTableHTML over every weekly schedule of the model      *)

T1200 == <<"1", "2", ":", "0", "0">>
\* the (open, close) pairs a day of the model may have
Slots == {<<T0930, T1700>>, <<T0900, T1700>>, <<T0930, T1200>>}
DayChoices == {<<>>} \cup Slots

\* the schedule giving day i the choice pick[i] (<<>> is a closed day)
HoursOf(pick) ==
  [i \in 1..Len(WeekDays) |->
     IF pick[i] = <<>> THEN ClosedDay(WeekDays[i])
     ELSE OpenDay(WeekDays[i], pick[i][1], pick[i][2])]

HoursInputs == {HoursOf(pick) : pick \in [1..Len(WeekDays) -> DayChoices]}

\* one window (the last two days of February 2025), seen from before, inside and after
DataClosure ==
  [startDate |-> DateStr(2025, 2, 27), endDate |-> DateStr(2025, 2, 28),
   message |-> <<"Closed for holidays">>]
DataClocks ==
  {[y |-> 2025, m |-> 2, d |-> 28, secs |-> 43200], [y |-> 2025, m |-> 3, d |-> 1, secs |-> 0]}

OptionInputs ==
  {<<>>, [description |-> <<"Contact us">>], [image |-> <<"img/contact.jpg">>]}

InitData ==
  /\ \E h \in HoursInputs :
       businessData \in {[ShippedData EXCEPT !.hours = h],
                         WithClosure([ShippedData EXCEPT !.hours = h], DataClosure)}
  /\ clock \in DataClocks
  /\ files = NoFiles
  /\ last = NoPatch
  /\ call = NoCall
  /\ ret = Null
  /\ denied = {}
  /\ run = NoRun

CallGenerateStructuredData ==
  /\ call = NoCall
  /\ \E options \in OptionInputs :
       /\ call' = [fn |-> "generateStructuredData", options |-> options, now |-> clock]
       /\ ret' = generateStructuredData(options, clock)
  /\ UNCHANGED <<businessData, clock, files, last, denied, run>>

CallGenerateHoursTableHTML ==
  /\ call = NoCall
  /\ call' = [fn |-> "generateHoursTableHTML"]
  /\ ret' = generateHoursTableHTML
  /\ UNCHANGED <<businessData, clock, files, last, denied, run>>

NextData == CallGenerateStructuredData \/ CallGenerateHoursTableHTML

SpecData == InitData /\ [][NextData]_vars

----------------------------------------------------------------------------
(* Claims about the projections of the hours (under SpecData) *)

OpenDays == SelectSeq(businessData.hours, LAMBDA hour : ~hour.closed)
\* the opening-hours rules of a record: none when the key is absent
RulesOf(data) ==
  IF Has(data, "openingHoursSpecification") THEN Get(data, "openingHoursSpecification")
  ELSE <<>>
PairOfRule(rule) == <<Get(rule, "opens"), Get(rule, "closes")>>
PairOfDay(hour) == <<hour.open, hour.close>>
\* the position in `hours` of the first open day with the pair
FirstDayWith(pair) ==
  CHOOSE i \in 1..Len(businessData.hours) :
    /\ ~businessData.hours[i].closed /\ PairOfDay(businessData.hours[i]) = pair
    /\ \A j \in 1..(i - 1) :
         businessData.hours[j].closed \/ PairOfDay(businessData.hours[j]) # pair
\* the names of the open days with the pair, in the order of `hours`
DaysWith(pair) ==
  LET sel == SelectSeq(businessData.hours,
                       LAMBDA hour : ~hour.closed /\ PairOfDay(hour) = pair)
  IN  [i \in 1..Len(sel) |-> sel[i].day]

\* C4: while today is within the closure window the structured data has no
\* openingHoursSpecification entry, whatever the hours; with no closure active and at
\* least one open day the rules are present.
C4_ClosureSuppression ==
  call.fn = "generateStructuredData" =>
    /\ InWindow(call.now) => ~Has(ret, "openingHoursSpecification")
    /\ (~InWindow(call.now) /\ Len(OpenDays) > 0) =>
         (Has(ret, "openingHoursSpecification") /\ Len(RulesOf(ret)) > 0)

\* a closure is active, some day is open, and the record has no rules
C4_Witness ==
  /\ call.fn = "generateStructuredData"
  /\ InWindow(call.now)
  /\ Len(OpenDays) > 0
  /\ ~Has(ret, "openingHoursSpecification")
  /\ Has(ret, "description")

\* C6: with no active closure, one rule per distinct (open, close) pair of the open
\* days, the rules in the order of first appearance of their pair, each listing exactly
\* the days with its pair in `hours` order, every open day in exactly one rule; the
\* shipped hours give exactly two rules.
C6_Grouping ==
  (call.fn = "generateStructuredData" /\ ~InWindow(call.now)) =>
    LET rules == RulesOf(ret)
        n     == Len(rules)
    IN  /\ {PairOfRule(rules[i]) : i \in 1..n} = {PairOfDay(h) : h \in Range(OpenDays)}
        /\ n = Cardinality({PairOfDay(h) : h \in Range(OpenDays)})
        /\ \A i \in 1..n :
             /\ Get(rules[i], "dayOfWeek") = DaysWith(PairOfRule(rules[i]))
             /\ Get(rules[i], "@type") = <<"OpeningHoursSpecification">>
        /\ \A i, j \in 1..n :
             i < j => FirstDayWith(PairOfRule(rules[i])) < FirstDayWith(PairOfRule(rules[j]))
        /\ \A k \in 1..Len(OpenDays) :
             Cardinality({i \in 1..n :
                \E x \in 1..Len(Get(rules[i], "dayOfWeek")) :
                   Get(rules[i], "dayOfWeek")[x] = OpenDays[k].day}) = 1
        /\ businessData.hours = hours =>
             /\ n = 2
             /\ Get(rules[1], "dayOfWeek")
                  = << <<"Tuesday">>, <<"Wednesday">>, <<"Thursday">>, <<"Friday">> >>
             /\ Get(rules[2], "dayOfWeek") = << <<"Saturday">> >>

\* three rules, the pair of the second one first seen after a day of the first
C6_Witness ==
  /\ call.fn = "generateStructuredData"
  /\ ~InWindow(call.now)
  /\ Len(RulesOf(ret)) = 3
  /\ Len(Get(RulesOf(ret)[1], "dayOfWeek")) > 1
  /\ FirstDayWith(PairOfRule(RulesOf(ret)[2])) < Len(WeekDays) - 2

\* C7: when every day is closed and no closure is active, the record carries the
\* openingHoursSpecification entry with zero elements.
C7_AllClosedEmptyList ==
  (call.fn = "generateStructuredData" /\ ~InWindow(call.now) /\ Len(OpenDays) = 0) =>
    (Has(ret, "openingHoursSpecification") /\ Len(RulesOf(ret)) = 0)

\* the rows of a table: the pieces that follow each opening of a row
RowsIn(html) == Tail(split(html, RowOpen))

\* C10: generateHoursTableHTML emits one row per entry of `hours`, in the order of
\* `hours`, each with the entry's day name; a row reads Closed exactly when the entry is
\* closed, otherwise the 12-hour open time, the separator and the 12-hour close time.
C10_HoursTable ==
  call.fn = "generateHoursTableHTML" =>
    LET rows == RowsIn(ret)
    IN  /\ Len(rows) = Len(businessData.hours)
        /\ Head(split(ret, RowOpen)) = <<>>
        /\ \A i \in 1..Len(rows) :
             LET hour == businessData.hours[i]
                 text == IF hour.closed THEN <<"Closed">>
                         ELSE Expected12Hour(hour.open, parseInt(SubSeq(hour.open, 1, 2)))
                                \o <<Dash>>
                                \o Expected12Hour(hour.close, parseInt(SubSeq(hour.close, 1, 2)))
             IN  /\ rows[i] = hour.day \o <<RowMid>> \o text \o <<RowClose>>
                 /\ hour.closed <=> (\E x \in 1..Len(rows[i]) : rows[i][x] = "Closed")

\* the shipped week: Monday closed first, Saturday 9:00 am to 5:00 pm sixth
C10_Witness ==
  /\ call.fn = "generateHoursTableHTML"
  /\ businessData.hours = hours
  /\ Len(RowsIn(ret)) = 7
  /\ RowsIn(ret)[1] = <<"Monday", RowMid, "Closed", RowClose>>
  /\ RowsIn(ret)[6] = <<"Saturday", RowMid, "9", ":", "0", "0", " ", "a", "m", Dash,
                        "5", ":", "0", "0", " ", "p", "m", RowClose>>

----------------------------------------------------------------------------
(* Specification of the patcher: updateHTMLFile run, and run again, on one *)
(* document under one configuration                                        *)

\* how many segments a document of the model is made of, at most
MaxSegs == 2

\* the pieces the documents of the model are made of: one well-formed anchor of each
\* kind with stale content, a structured-data anchor with a comment before its closing
\* sentinel, and markup outside any anchor
Segments ==
  { <<SDOpen, Newline, ScriptOpen, "{}", ScriptClose, Newline, End>>,
    <<SDOpen, ScriptOpen, "{}", ScriptClose, "<!-- generated -->", End>>,
    <<ABOpen, ABTag, "1 Old Road | Oldtown", DivClose, End>>,
    <<NBOpen, " ", NBTag, "Old Brand", AClose, End>>,
    <<BHOpen, BHTag, "Old Name", DivClose, End>>,
    <<HTOpen, Newline, "<table>old</table>", Newline, End>>,
    <<CPOpen, CPTag, "(000) 000-0000", StrongClose, End>>,
    <<CAOpen, CATag, "1 Old Road", Br, "Oldtown", StrongClose, End>>,
    <<"<p>Welcome</p>">> }

RECURSIVE DocsOf(_)
\* the documents made of exactly n segments
DocsOf(n) ==
  IF n = 0 THEN {<<>>}
  ELSE {seg \o doc : seg \in Segments, doc \in DocsOf(n - 1)}

Documents == UNION {DocsOf(n) : n \in 1..MaxSegs}

\* the shipped configuration without its optional field servesCuisine
WithoutCuisine ==
  [ name        |-> ShippedData.name,        shortName   |-> ShippedData.shortName,
    address     |-> ShippedData.address,     phone       |-> ShippedData.phone,
    coordinates |-> ShippedData.coordinates, url         |-> ShippedData.url,
    priceRange  |-> ShippedData.priceRange,  description |-> ShippedData.description,
    tagline     |-> ShippedData.tagline,     hours       |-> ShippedData.hours,
    images      |-> ShippedData.images ]

PatchConfigs ==
  { ShippedData,
    WithClosure(ShippedData, DataClosure),
    [ShippedData EXCEPT !.shortName = <<>>],
    [ShippedData EXCEPT !.name = <<MarkupName>>],
    WithoutCuisine }

InitPatch ==
  /\ businessData \in PatchConfigs
  /\ clock \in DataClocks
  /\ \E name \in FileNames, doc \in Documents :
       files = [f \in FileNames |-> IF f = name THEN doc ELSE Missing]
  /\ last = NoPatch
  /\ call = NoCall
  /\ ret = Null
  /\ denied = {}
  /\ run = NoRun

\* one call of updateHTMLFile on an existing file; midnight may pass during the call
UpdateHTMLFile ==
  /\ \E name \in FileNames :
       /\ files[name] # Missing
       /\ \E reads \in ReadsFrom(clock) :
          \E result \in {updateHTMLFile(PathOf(name), files[name], reads)} :
            /\ files' = IF result.updated THEN [files EXCEPT ![name] = result.content]
                        ELSE files
            /\ last' = [ fn       |-> "updateHTMLFile",
                         path     |-> name,
                         before   |-> files[name],
                         computed |-> result.content,
                         wrote    |-> result.updated,
                         returned |-> result.updated,
                         reads    |-> reads ]
            /\ clock' = reads[4]
  /\ UNCHANGED <<businessData, call, ret, denied, run>>

\* midnight passes
ClockAdvance ==
  /\ clock.secs # 0
  /\ clock' = Midnight(clock)
  /\ UNCHANGED <<businessData, files, last, call, ret, denied, run>>

NextPatch == UpdateHTMLFile \/ ClockAdvance

SpecPatch == InitPatch /\ [][NextPatch]_vars

----------------------------------------------------------------------------
(* Specification of the three scripts on one document: the current and the *)
(* legacy update script and the formatter are separate processes that work *)
(* on the same files, one call after the other in any order.               *)

InitScripts ==
  /\ businessData \in {ShippedData, WithClosure(ShippedData, DataClosure)}
  /\ clock \in DataClocks
  /\ \E name \in FileNames, doc \in DocsOf(1) :
       files = [f \in FileNames |-> IF f = name THEN doc ELSE Missing]
  /\ last = NoPatch
  /\ call = NoCall
  /\ ret = Null
  /\ denied = {}
  /\ run = NoRun

\* one call of the legacy updateHTMLFile on an existing file
LegacyUpdateHTMLFile ==
  /\ \E name \in FileNames :
       /\ files[name] # Missing
       /\ \E result \in {legacy_updateHTMLFile(PathOf(name), files[name])} :
            /\ files' = IF result.updated THEN [files EXCEPT ![name] = result.content]
                        ELSE files
            /\ last' = [ fn |-> "legacy updateHTMLFile", path |-> name,
                         wrote |-> result.updated, returned |-> result.updated ]
  /\ UNCHANGED <<businessData, clock, call, ret, denied, run>>

\* one call of formatHTMLFile on an existing file
FormatHTMLFile ==
  /\ \E name \in FileNames :
       /\ files[name] # Missing
       /\ \E result \in formatHTMLFile(name, files[name]) :
            /\ files' = [files EXCEPT ![name] = result.content]
            /\ last' = [ fn |-> "formatHTMLFile", path |-> name,
                         wrote |-> result.returned, returned |-> result.returned ]
  /\ UNCHANGED <<businessData, clock, call, ret, denied, run>>

NextScripts == UpdateHTMLFile \/ LegacyUpdateHTMLFile \/ FormatHTMLFile \/ ClockAdvance

SpecScripts == InitScripts /\ [][NextScripts]_vars

----------------------------------------------------------------------------
(* Claims about the patcher (under SpecPatch) *)

\* the last call on the files was a call of the current updateHTMLFile
Patched == last.path # "none" /\ last.fn = "updateHTMLFile"
\* the last call read the clock at the date the clock shows now
SameDate ==
  \A i \in 1..Len(last.reads) :
    <<last.reads[i].y, last.reads[i].m, last.reads[i].d>> = <<clock.y, clock.m, clock.d>>

\* C1: running updateHTMLFile a second time with the same configuration and the same
\* date leaves the content exactly as the first run left it, for every anchor kind.
C1_Idempotent ==
  (Patched /\ SameDate) =>
    updateHTMLFile(PathOf(last.path), files[last.path], last.reads).content
      = files[last.path]

\* the stages of the last call and the match each taken step made
LastStages == Stages(PathOf(last.path), last.before, last.reads)
LastMatched == Matched(PathOf(last.path), last.before, last.reads)

\* C2: the region replaced for an anchor ends at the first END after that anchor's
\* opening sentinel, and everything outside the region is unchanged by the step.
C2_NearestSentinel ==
  Patched =>
    \A stages \in {LastStages} :
      \A k \in MatchedIn(PathOf(last.path), stages) :
        \A m \in {ExecValue(Kinds[k], stages[k])} :
          /\ m.e = FirstEndFrom(stages[k], m.s + 1)
          /\ SubSeq(stages[k + 1], 1, m.s - 1) = SubSeq(stages[k], 1, m.s - 1)
          /\ SubSeq(stages[k + 1], Len(stages[k + 1]) - (Len(stages[k]) - m.e) + 1,
                    Len(stages[k + 1]))
               = SubSeq(stages[k], m.e + 1, Len(stages[k]))

\* C3 as claimed: the document is written iff at least one anchor matched and the
\* patch changed the content; otherwise it is not written and false is returned.
C3_WrittenIffChanged ==
  Patched =>
    /\ last.wrote <=> (LastMatched # {} /\ last.computed # last.before)
    /\ last.returned <=> last.wrote

\* C3 as amended: the document is written iff the pattern of at least one anchor
\* matched in a step taken for the file, whether or not the content changed; true is
\* returned exactly when it is written; an unwritten document keeps its content and a
\* written one holds the patched content.
C3_WrittenIffMatched ==
  Patched =>
    \A stages \in {LastStages} :
      /\ last.wrote <=> (\E k \in KindsFor(PathOf(last.path)) : Test(Kinds[k], stages[k]))
      /\ last.returned <=> last.wrote
      /\ last.computed = stages[Len(stages)]
      /\ last.wrote => files[last.path] = last.computed
      /\ ~last.wrote => (files[last.path] = last.before /\ last.computed = last.before)
      /\ last.computed # last.before => last.wrote

\* a second run: anchors matched, the content was already current, it was written again
C3_Witness ==
  /\ Patched
  /\ last.wrote /\ last.returned
  /\ last.computed = last.before
  /\ LastMatched # {}

\* the text between <script ...> and </script> of the first structured-data anchor
SDBlock(content) ==
  CHOOSE block \in {SubSeq(content, m.g1 + 1, m.g3 - 1) :
                      m \in {Exec("structuredData", content)}} : TRUE
HasCuisine(block) == \E i \in 1..Len(block) : block[i] = "servesCuisine"
\* the block without its property servesCuisine: the comma that ends the line before,
\* the line break, the indentation, the quoted key, the colon and the quoted value
StripCuisine(block) ==
  IF ~HasCuisine(block) THEN block
  ELSE \* the position of the key
       LET i == CHOOSE j \in 1..Len(block) : block[j] = "servesCuisine"
       IN  SubSeq(block, 1, i - 6) \o SubSeq(block, i + 5, Len(block))

\* the block index.html gets from the content the last call found, on the date the
\* last call took for its block (the first read of the clock for index.html, the
\* second one, of line 319, for the other documents)
HomeBlock ==
  SDBlock(updateHTMLFile(PathOf("index.html"), last.before,
                         IF last.path = "index.html"
                         THEN <<last.reads[1], last.reads[1], last.reads[1], last.reads[1]>>
                         ELSE <<last.reads[2], last.reads[2], last.reads[2], last.reads[2]>>
                        ).content)

\* C13: the structured-data block written into a document holds servesCuisine iff the
\* document is index.html and the configuration defines servesCuisine; in the other
\* documents it is the block index.html would get on the same date, without that
\* property.
C13_CuisineOnlyOnHome ==
  (Patched /\ 1 \in LastMatched) =>
    \A block \in {SDBlock(last.computed)} :
      /\ HasCuisine(block) <=> (last.path = "index.html" /\ Configured("servesCuisine"))
      /\ \A home \in {HomeBlock} :
           /\ last.path = "index.html" => block = home
           /\ last.path # "index.html" => block = StripCuisine(home)
           /\ Configured("servesCuisine") => HasCuisine(home)

\* the contact document got a block without servesCuisine though it is configured
C13_Witness ==
  /\ Patched /\ last.wrote
  /\ 1 \in LastMatched
  /\ last.path = "contact.html"
  /\ Configured("servesCuisine")
  /\ ~HasCuisine(SDBlock(files["contact.html"]))
  /\ HasCuisine(HomeBlock)

\* what claim C14 has the step of kind Kinds[k] do: the update of that anchor in every
\* document, the one of the hours table in the contact document only
StepInEveryDocument(k, filePath, content, reads) ==
  CASE k = 1 -> UpdateStructuredData(filePath, content, reads)
    [] k = 2 -> UpdateAddressBar(content)
    [] k = 3 -> UpdateNavBrand(content)
    [] k = 4 -> UpdateBrandHeader(content)
    [] k = 5 -> IF includes(filePath, "contact.html") THEN UpdateHoursTable(content, reads)
                ELSE content
    [] k = 6 -> UpdatePhone(content)
    [] k = 7 -> UpdateAddress(content)

\* C14: in every managed document every anchor present is replaced by the current
\* projection, the hours table in the contact document only; an absent anchor is
\* skipped and the other anchors of the document are still patched.
C14_EveryAnchorEveryDocument ==
  Patched =>
    \A stages \in {LastStages} :
      \A k \in 1..Len(Kinds) :
        stages[k + 1] = StepInEveryDocument(k, PathOf(last.path), stages[k], last.reads)

\* C16: after a run of the patcher every anchor that matched in the run still matches
\* its pattern in the resulting document, whatever the configured values are (an empty
\* string, a value holding <).
C16_StillMatches ==
  Patched => \A k \in LastMatched : Test(Kinds[k], last.computed)

\* C16 for configured values that are not empty and hold no <: the anchors that
\* matched still match.
C16_StillMatchesPlainValues ==
  (businessData.shortName # <<>> /\ businessData.name # <<MarkupName>>) => C16_StillMatches

----------------------------------------------------------------------------
(* Specification of main(): the run over htmlFiles.  A file operation that *)
(* `denied` names throws; nothing in the script catches, so the exception  *)
(* ends the process.  fs.writeFileSync opens the file for writing, which   *)
(* truncates it, and then writes: "open" fails before the file is touched, *)
(* "write" fails after the truncation, with part of the data written.      *)

PlainDoc == <<"<p>Welcome</p>">>
FullDoc ==
  <<SDOpen, Newline, ScriptOpen, "{}", ScriptClose, Newline, End,
    HTOpen, Newline, "<table>old</table>", Newline, End>>
BarDoc == <<"<p>Welcome</p>", ABOpen, ABTag, "1 Old Road | Oldtown", DivClose, End>>
\* what each file of the run can be: absent, without anchors, or with anchors (the
\* contact document with the two anchors whose content depends on the date)
MainDocs(name) ==
  IF name = "contact.html" THEN {Missing, PlainDoc, FullDoc} ELSE {Missing, PlainDoc, BarDoc}

\* lines 425-426: the state when forEach starts
StartRun == [status |-> "running", i |-> 1, updatedCount |-> 0, log |-> <<>>, called |-> <<>>]

InitMain ==
  /\ businessData \in {ShippedData, WithClosure(ShippedData, DataClosure)}
  /\ clock \in DataClocks
  /\ files \in {f \in [FileNames -> {Missing, PlainDoc, BarDoc, FullDoc}] :
                  \A name \in FileNames : f[name] \in MainDocs(name)}
  /\ denied \in Denials
  /\ run = StartRun
  /\ last = NoPatch
  /\ call = NoCall
  /\ ret = Null

Running == run.status = "running" /\ run.i <= Len(HtmlFiles)

Counted_Always(updatedCount, returned) == updatedCount + 1
\* lines 428-433: updatedCount after a call that returned `returned`
Counted(updatedCount, returned) == IF returned THEN updatedCount + 1 ELSE updatedCount

\* the uncaught exception of a file operation: the process ends with an error
Thrown(name, op) ==
  [run EXCEPT !.status = "failed",
              !.log = Append(@, [line |-> "error", file |-> name]),
              !.called = Append(@, [file |-> name, returned |-> op, content |-> Null])]

\* lines 427, 434-436: the file does not exist
MainSkipMissing ==
  /\ Running
  /\ files[HtmlFiles[run.i]] = Missing
  /\ run' = [run EXCEPT !.i = @ + 1,
                        !.log = Append(@, [line |-> "not found", file |-> HtmlFiles[run.i]])]
  /\ UNCHANGED <<businessData, clock, files, last, call, ret, denied>>

\* lines 428, 308: readFileSync throws
MainReadFails ==
  /\ Running
  /\ files[HtmlFiles[run.i]] # Missing
  /\ <<"read", HtmlFiles[run.i]>> \in denied
  /\ run' = Thrown(HtmlFiles[run.i], "read threw")
  /\ UNCHANGED <<businessData, clock, files, last, call, ret, denied>>

\* what `last` records of a call
Patch(name, before, result, wrote, reads) ==
  [ fn |-> "updateHTMLFile", path |-> name, before |-> before,
    computed |-> result.content, wrote |-> wrote, returned |-> wrote, reads |-> reads ]

\* lines 428-433, 307-408: the call returns
MainUpdate ==
  /\ Running
  /\ \E name \in {HtmlFiles[run.i]} :
       /\ files[name] # Missing
       /\ <<"read", name>> \notin denied
       /\ \E reads \in ReadsFrom(clock) :
          \E result \in {updateHTMLFile(PathOf(name), files[name], reads)} :
            /\ result.updated => denied \cap {<<"open", name>>, <<"write", name>>} = {}
            /\ files' = IF result.updated THEN [files EXCEPT ![name] = result.content]
                        ELSE files
            /\ run' = [run EXCEPT
                         !.i = @ + 1,
                         !.updatedCount = Counted(@, result.updated),
                         !.log = Append(@, [line |-> IF result.updated THEN "updated"
                                                     ELSE "no updates needed",
                                            file |-> name]),
                         !.called = Append(@, [file |-> name,
                                               returned |-> IF result.updated THEN "true"
                                                            ELSE "false",
                                               content |-> result.content])]
            /\ last' = Patch(name, files[name], result, result.updated, reads)
            /\ clock' = reads[4]
  /\ UNCHANGED <<businessData, call, ret, denied>>

\* lines 403-404: writeFileSync throws
MainWriteFails ==
  /\ Running
  /\ \E name \in {HtmlFiles[run.i]} :
       /\ files[name] # Missing
       /\ <<"read", name>> \notin denied
       /\ denied \cap {<<"open", name>>, <<"write", name>>} # {}
       /\ \E reads \in ReadsFrom(clock) :
          \E result \in {updateHTMLFile(PathOf(name), files[name], reads)} :
            /\ result.updated
            /\ \/ /\ <<"open", name>> \in denied
                  /\ files' = files
               \/ /\ <<"write", name>> \in denied
                  /\ \E left \in PartialWrites(result.content) :
                       files' = [files EXCEPT ![name] = left]
            /\ run' = Thrown(name, "write threw")
            /\ last' = Patch(name, files[name], result, FALSE, reads)
            /\ clock' = reads[4]
  /\ UNCHANGED <<businessData, call, ret, denied>>

\* lines 439-443: after forEach
MainSummary ==
  /\ run.status = "running"
  /\ run.i > Len(HtmlFiles)
  /\ run' = [run EXCEPT !.status = "done",
                        !.log = Append(@, [line |-> "summary", count |-> run.updatedCount])]
  /\ UNCHANGED <<businessData, clock, files, last, call, ret, denied>>

NextMain == MainSkipMissing \/ MainReadFails \/ MainUpdate \/ MainWriteFails \/ MainSummary

SpecMain == InitMain /\ [][NextMain]_vars

----------------------------------------------------------------------------
(* Specification of main() of the formatter (lines 44-68): the run over    *)
(* the same four files.  formatHTMLFile catches every exception, so a      *)
(* failed file operation does not end the run.                             *)

\* lines 45-55: the state when forEach starts
StartFormat == [status |-> "formatting", i |-> 1, formattedCount |-> 0, log |-> <<>>]

InitFormatter ==
  /\ businessData = ShippedData
  /\ clock = StartClock
  /\ files \in {f \in [FileNames -> {Missing, PlainDoc, BarDoc, FullDoc}] :
                  \A name \in FileNames : f[name] \in MainDocs(name)}
  /\ denied \in Denials
  /\ run = StartFormat
  /\ last = NoPatch
  /\ call = NoCall
  /\ ret = Null

Formatting == run.status = "formatting" /\ run.i <= Len(HtmlFiles)

\* lines 57, 62-64: the file does not exist
FormatSkipMissing ==
  /\ Formatting
  /\ files[HtmlFiles[run.i]] = Missing
  /\ run' = [run EXCEPT !.i = @ + 1,
                        !.log = Append(@, [line |-> "not found", file |-> HtmlFiles[run.i]])]
  /\ UNCHANGED <<businessData, clock, files, last, call, ret, denied>>

\* lines 57-61, 20-38: the call returns, true or (after a caught exception) false
FormatFile ==
  /\ Formatting
  /\ \E name \in {HtmlFiles[run.i]} :
       /\ files[name] # Missing
       /\ \E result \in formatHTMLFile(name, files[name]) :
            /\ files' = [files EXCEPT ![name] = result.content]
            /\ run' = [run EXCEPT
                         !.i = @ + 1,
                         !.formattedCount = IF result.returned THEN @ + 1 ELSE @,
                         !.log = Append(@, [line |-> IF result.returned THEN "formatted"
                                                     ELSE "error",
                                            file |-> name])]
            /\ last' = [ fn |-> "formatHTMLFile", path |-> name,
                         wrote |-> result.returned, returned |-> result.returned ]
  /\ UNCHANGED <<businessData, clock, call, ret, denied>>

\* line 67: after forEach
FormatSummary ==
  /\ run.status = "formatting"
  /\ run.i > Len(HtmlFiles)
  /\ run' = [run EXCEPT !.status = "done",
                        !.log = Append(@, [line |-> "summary", count |-> run.formattedCount])]
  /\ UNCHANGED <<businessData, clock, files, last, call, ret, denied>>

NextFormatter == FormatSkipMissing \/ FormatFile \/ FormatSummary

SpecFormatter == InitFormatter /\ [][NextFormatter]_vars

----------------------------------------------------------------------------
(* Claims about main() (under SpecMain) *)

\* the files main() has dealt with so far, in the order of its output
Reported == [k \in 1..Len(SelectSeq(run.log, LAMBDA l : l.line # "summary")) |-> run.log[k].file]
\* the calls of updateHTMLFile that returned true
ReturnedTrue == {k \in 1..Len(run.called) : run.called[k].returned = "true"}
\* the files of the run that exist
Existing == SelectSeq(HtmlFiles, LAMBDA name : files[name] # Missing)

\* C11: main() deals with index, contact, specials, services in this order; a file
\* that does not exist is reported and skipped, the run goes on with every later
\* file, and the count of the summary is the number of calls of updateHTMLFile that
\* returned true.
C11_Orchestrator ==
  /\ \A k \in 1..Len(Reported) : Reported[k] = HtmlFiles[k]
  /\ \A k \in 1..Len(Reported) :
       files[HtmlFiles[k]] = Missing <=> run.log[k].line = "not found"
  /\ \A k \in 1..Len(run.called) : run.called[k].file = Existing[k]
  /\ run.updatedCount = Cardinality(ReturnedTrue)
  /\ run.status = "failed" =>
       /\ denied # {}
       /\ files[HtmlFiles[run.i]] # Missing
  /\ run.status = "done" =>
       /\ Len(Reported) = Len(HtmlFiles)
       /\ Len(run.called) = Len(Existing)
       /\ run.log[Len(run.log)] =
            [line |-> "summary", count |-> Cardinality(ReturnedTrue)]

\* a finished run in which index is updated, contact is missing, specials needs no
\* update and services is updated
C11_Witness ==
  /\ run.status = "done"
  /\ [k \in 1..4 |-> run.log[k].line]
       = <<"updated", "not found", "no updates needed", "updated">>
  /\ run.log[5].count = 2

\* C12: a failed read or write ends the run with an error: no later file is dealt
\* with, no summary is printed, the file whose write failed keeps the content it had,
\* and the files written before keep what was written.
C12_FailureAborts ==
  /\ \A k \in ReturnedTrue : files[run.called[k].file] = run.called[k].content
  /\ run.status = "failed" =>
       /\ ~ENABLED NextMain
       /\ \A k \in 1..Len(run.log) : run.log[k].line # "summary"
       /\ run.log[Len(run.log)] = [line |-> "error", file |-> HtmlFiles[run.i]]
       /\ run.called[Len(run.called)].returned = "write threw" =>
            files[last.path] = last.before

\* C12 for the failures that happen before the file is truncated (readFileSync, or
\* the open of writeFileSync): the claim holds of them.
C12_FailureBeforeTruncation ==
  (\A d \in denied : d[1] # "write") => C12_FailureAborts

Holds(content, atom) == \E i \in 1..Len(content) : content[i] = atom

\* C15: within one patch of the contact document the closure banner is emitted iff
\* the hours table is written dimmed and captioned, and iff the structured-data block
\* of the document has no opening-hours rules, also when the date changes between the
\* reads of the clock made during the patch.
C15_ClosureOutputsAgree ==
  (last.path = "contact.html" /\ last.before = FullDoc) =>
    /\ Holds(last.computed, CardOpen) <=> Holds(last.computed, TableOpenDimmed)
    /\ Holds(last.computed, CardOpen) <=> ~Holds(last.computed, "openingHoursSpecification")

\* C15 when the date is the same at every read of the clock: the outputs agree.
C15_AgreeOnOneDate ==
  (Patched /\ \A k \in 1..4 : last.reads[k] = last.reads[1]) => C15_ClosureOutputsAgree

----------------------------------------------------------------------------
(* The legacy copy of the script (src/unnamed/part_001) and the            *)
(* specification that calls both copies of generateStructuredData.         *)

CallBothGenerateStructuredData ==
  /\ call = NoCall
  /\ \E options \in OptionInputs :
       /\ call' = [fn |-> "both", options |-> options, now |-> clock]
       /\ ret' = [current |-> generateStructuredData(options, clock),
                  legacy  |-> legacy_generateStructuredData(options)]
  /\ UNCHANGED <<businessData, clock, files, last, denied, run>>

NextLegacy == CallBothGenerateStructuredData

SpecLegacy == InitData /\ [][NextLegacy]_vars

\* C17: the two copies of generateStructuredData return the same record (the same
\* keys in the same order with the same values) whenever no temporary closure is
\* active and at least one day is open; they differ only during an active closure or
\* when every day is closed, and there they do differ.
C17_LegacyAgrees ==
  call.fn = "both" =>
    (ret.current = ret.legacy <=> (~InWindow(call.now) /\ Len(OpenDays) > 0))

\* both copies called outside a closure with open days: two rules, custom description
C17_Witness ==
  /\ call.fn = "both"
  /\ ~InWindow(call.now) /\ Len(OpenDays) > 0
  /\ "description" \in DOMAIN call.options
  /\ Len(RulesOf(ret.legacy)) = 2
  /\ ret.current.keys = ret.legacy.keys

====
